---------------------------- MODULE Spec2Model ----------------------------
(***************************************************************************)
(* Model of scripts/vps_switch_media_to_r2.py: the .env updater            *)
(* (_parse_env, _format_env), the Caddyfile block stripper                 *)
(* (_strip_s3_vhost_from_caddyfile) and the migration workflow (main);     *)
(* of the Caddyfile rendering of scripts/vps_setup_langfuse.py (main);     *)
(* and of the remote file replacement the scripts share (SSH.put_text,     *)
(* SSH.put_bytes).                                                         *)
(*                                                                         *)
(* A text is a sequence of one-character strings, so that splitting,       *)
(* pattern matching, formatting and joining are computed character by      *)
(* character as the Python code computes them.                             *)
(***************************************************************************)
EXTENDS Integers, Sequences, FiniteSets, TLC

VARIABLES
    stage,      \* harness of the pure functions: "input", "once", "twice"
    txt,        \* harness: the input text
    upd,        \* harness: the update map d (a dict, in insertion order)
    lines,      \* harness: the list of input lines the first call split
    out_lines,  \* harness: the list of output lines the first call built
    fate,       \* harness: what the stripper's scan did with each input line
    res,        \* harness: the function applied to txt
    res2,       \* harness: the function applied to res
    pc,         \* main: the position in main()
    r2,         \* main: the R2_* environment variables of the process
    envFile,    \* the content of /opt/langfuse/.env on the server
    caddyFile,  \* the content of /opt/langfuse/Caddyfile on the server
    env_text,       \* main: local variables
    new_env_text,
    caddy_text,
    new_caddy_text,
    puts,       \* the remote paths put_text was called with in this run
    runs,       \* the runs of the script that have ended
    environ,    \* setup: LANGFUSE_DOMAIN and LANGFUSE_S3_DOMAIN of the process
    deployCaddyfile,  \* setup: the content of the local deploy/vps/Caddyfile
    cfg,        \* setup: the VPSConfig (domain_web, domain_s3)
    env_bytes,        \* setup: local variables
    caddyfile_bytes,
    call,       \* put: the arguments of the call and the destination before it
    destFile,   \* put: the remote file at remote_path
    tmpFile,    \* put: the remote file at tmp
    overwrites  \* put: whether the server's rename replaces an existing file

harness == <<stage, txt, upd, lines, out_lines, fate, res, res2>>
workflow == <<pc, r2, envFile, caddyFile, env_text, new_env_text, caddy_text,
              new_caddy_text, puts, runs>>
setupv == <<environ, deployCaddyfile, cfg, env_bytes, caddyfile_bytes>>
putv == <<call, destFile, tmpFile, overwrites>>
rest == <<setupv, putv>>
others == <<harness, rest>>
workflow_data == <<r2, envFile, caddyFile, env_text, new_env_text, caddy_text,
                   new_caddy_text, puts, runs>>
vars == <<harness, workflow, rest>>

----------------------------------------------------------------------------
(* Characters *)

LF == "\n"
CR == "\r"
TAB == "\t"
QUOTE == "\""
NoText == <<"<", "n", "o", "n", "e", ">">>

Upper == {"A", "B", "C", "D", "E", "F", "G", "H", "I", "J", "K", "L", "M",
          "N", "O", "P", "Q", "R", "S", "T", "U", "V", "W", "X", "Y", "Z"}
Lower == {"a", "b", "c", "d", "e", "f", "g", "h", "i", "j", "k", "l", "m",
          "n", "o", "p", "q", "r", "s", "t", "u", "v", "w", "x", "y", "z"}
Digit == {"0", "1", "2", "3", "4", "5", "6", "7", "8", "9"}

\* \s of the re module and the characters str.strip() removes
IsSpace(c) == c \in {" ", TAB, LF, CR}
\* [A-Za-z_]
IsKeyStart(c) == c \in Upper \cup Lower \cup {"_"}
\* [A-Za-z0-9_]
IsKeyChar(c) == c \in Upper \cup Lower \cup Digit \cup {"_"}

----------------------------------------------------------------------------
(* str.splitlines(), "\n".join(), str.strip(), str.rstrip() *)

\* the index of the last character of each line terminator: a \n, or a \r
\* that no \n follows
LineEnds(s) ==
    {i \in 1..Len(s) :
        s[i] = LF \/ (s[i] = CR /\ ~(i < Len(s) /\ s[i + 1] = LF))}

\* s.splitlines(): breaks at \n, \r and \r\n, the terminators dropped, and no
\* empty last line after a final terminator
SplitLines(s) ==
    LET ends == LineEnds(s)
        n == Cardinality(ends)
        endAt(k) ==
            IF k = 0 THEN 0
            ELSE CHOOSE e \in ends : Cardinality({x \in ends : x <= e}) = k
        content(k) ==
            LET e == endAt(k)
            IN  SubSeq(s, endAt(k - 1) + 1,
                       IF s[e] = LF /\ e > 1 /\ s[e - 1] = CR
                       THEN e - 2 ELSE e - 1)
        last == endAt(n)
    IN  [k \in 1..n |-> content(k)]
            \o (IF last < Len(s) THEN <<SubSeq(s, last + 1, Len(s))>>
                ELSE <<>>)

RECURSIVE JoinFrom(_, _)
JoinFrom(ls, i) ==
    IF i > Len(ls) THEN <<>>
    ELSE IF i = Len(ls) THEN ls[i]
         ELSE ls[i] \o <<LF>> \o JoinFrom(ls, i + 1)

\* "\n".join(ls)
JoinLF(ls) == JoinFrom(ls, 1)

\* the first index at or after i of a character that is not white space
SkipSpace(s, i) ==
    CHOOSE j \in i..(Len(s) + 1) :
        /\ (j = Len(s) + 1 \/ ~IsSpace(s[j]))
        /\ \A k \in i..(j - 1) : IsSpace(s[k])

\* the last index at or before i of a character that is not white space
SkipSpaceBack(s, i) ==
    CHOOSE j \in 0..i :
        /\ (j = 0 \/ ~IsSpace(s[j]))
        /\ \A k \in (j + 1)..i : IsSpace(s[k])

\* s.rstrip()
RStrip(s) == SubSeq(s, 1, SkipSpaceBack(s, Len(s)))

\* s.strip()
Strip(s) == LET r == RStrip(s) IN SubSeq(r, SkipSpace(r, 1), Len(r))

----------------------------------------------------------------------------
(* _format_env *)

\* the end of the longest run of key characters starting at i
KeyEnd(s, i) ==
    CHOOSE j \in i..(Len(s) + 1) :
        /\ (j = Len(s) + 1 \/ ~IsKeyChar(s[j]))
        /\ \A k \in i..(j - 1) : IsKeyChar(s[k])

\* re.match(r"^\s*([A-Za-z_][A-Za-z0-9_]*)\s*=\s*(.*)\s*$", line): the tail
\* \s*(.*)\s*$ matches whatever follows the "=", a line holding no \n
EnvMatch(line) ==
    LET a == SkipSpace(line, 1)
        b == KeyEnd(line, a)
        c == SkipSpace(line, b)
    IN  /\ a <= Len(line)
        /\ IsKeyStart(line[a])
        /\ c <= Len(line)
        /\ line[c] = "="

\* m.group(1)
EnvKey(line) ==
    LET a == SkipSpace(line, 1) IN SubSeq(line, a, KeyEnd(line, a) - 1)

\* k in d
HasKey(d, k) == \E i \in 1..Len(d) : d[i].k = k

\* d[k]
Lookup(d, k) == d[CHOOSE i \in 1..Len(d) : d[i].k = k].v

\* f'{k}="{v}"'
KeyValueLine(k, v) == k \o <<"=", QUOTE>> \o v \o <<QUOTE>>

Marker ==
    <<"#", " ", "A", "d", "d", "e", "d", " ", "b", "y", " ", "v", "p", "s",
      "_", "s", "w", "i", "t", "c", "h", "_", "m", "e", "d", "i", "a", "_",
      "t", "o", "_", "r", "2", ".", "p", "y">>

\* a variant that trims the lines it passes through
FormatLineStripped(d, line) ==
    IF ~EnvMatch(line) THEN Strip(line)
    ELSE IF HasKey(d, EnvKey(line))
         THEN KeyValueLine(EnvKey(line), Lookup(d, EnvKey(line)))
         ELSE Strip(line)

\* the body of the loop over the lines: the output line of one input line
FormatLine(d, line) ==
    IF ~EnvMatch(line) THEN line
    ELSE IF HasKey(d, EnvKey(line))
         THEN KeyValueLine(EnvKey(line), Lookup(d, EnvKey(line)))
         ELSE line

\* existing_keys after the loop
ExistingKeys(ls) ==
    {EnvKey(ls[i]) : i \in {j \in 1..Len(ls) : EnvMatch(ls[j])}}

\* missing = [k for k in d.keys() if k not in existing_keys], with the values
Missing(d, ls) ==
    LET existing_keys == ExistingKeys(ls)
    IN  SelectSeq(d, LAMBDA p : p.k \notin existing_keys)

\* a variant that appends the missing keys right after the marker comment,
\* in reverse order
AppendedBlockReversed(missing) ==
    IF missing # <<>>
    THEN <<<<>>, Marker>> \o
         [i \in 1..Len(missing) |->
            KeyValueLine(missing[Len(missing) + 1 - i].k,
                         missing[Len(missing) + 1 - i].v)]
    ELSE <<>>

\* the appended block
AppendedBlock(missing) ==
    IF missing # <<>>
    THEN <<<<>>, Marker>> \o
         [i \in 1..Len(missing) |-> KeyValueLine(missing[i].k, missing[i].v)]
    ELSE <<>>

\* a variant that rewrites only the first line defining a key
RECURSIVE FirstOnlyFrom(_, _, _, _)
FirstOnlyFrom(d, ls, i, seen) ==
    IF i > Len(ls) THEN <<>>
    ELSE IF ~EnvMatch(ls[i])
         THEN <<ls[i]>> \o FirstOnlyFrom(d, ls, i + 1, seen)
         ELSE <<IF EnvKey(ls[i]) \in seen THEN ls[i]
                ELSE FormatLine(d, ls[i])>>
              \o FirstOnlyFrom(d, ls, i + 1, seen \cup {EnvKey(ls[i])})

FormatEnvLinesFirstOnly(d, original) ==
    LET ls == SplitLines(original)
    IN  FirstOnlyFrom(d, ls, 1, {}) \o AppendedBlock(Missing(d, ls))

\* out_lines when the function returns
FormatEnvLines(d, original) ==
    LET ls == SplitLines(original)
    IN  [i \in 1..Len(ls) |-> FormatLine(d, ls[i])]
            \o AppendedBlock(Missing(d, ls))

\* a variant that joins the lines and adds no final newline
format_env_unterminated(d, original) == JoinLF(FormatEnvLines(d, original))

\* _format_env(d, original)
format_env(d, original) == JoinLF(FormatEnvLines(d, original)) \o <<LF>>

\* the workflow's variables while the harness of a function runs
WorkflowIdle ==
    /\ pc = "idle"
    /\ r2 = <<>>
    /\ envFile = NoText /\ caddyFile = NoText
    /\ env_text = NoText /\ new_env_text = NoText
    /\ caddy_text = NoText /\ new_caddy_text = NoText
    /\ puts = <<>>
    /\ runs = 0

\* the harness's variables while a script runs
HarnessIdle ==
    /\ stage = "idle" /\ txt = NoText /\ upd = <<>> /\ lines = <<>>
    /\ out_lines = <<>> /\ fate = <<>> /\ res = NoText /\ res2 = NoText

\* the setup script's variables while it does not run
SetupIdle ==
    /\ environ = <<>>
    /\ deployCaddyfile = NoText
    /\ cfg = <<>>
    /\ env_bytes = NoText /\ caddyfile_bytes = NoText

\* no remote file replacement under way
PutIdle ==
    /\ call = <<>>
    /\ destFile = <<>> /\ tmpFile = <<>>
    /\ overwrites = FALSE

----------------------------------------------------------------------------
(* Inputs of the .env updater *)

MaxEnvLines == 2

EnvLinePool ==
    { <<"A", "=", "1">>,
      <<" ", "A", " ", "=", " ", QUOTE, "2", QUOTE>>,
      <<" ", "B", " ", "=", "2", " ">>,
      <<"#", "c">>,
      <<"A", "-", "B", "=", "1">>,
      <<>> }

\* the line terminators of a file and whether its last line is terminated
EolStyles == { <<<<LF>>, TRUE>>, <<<<LF>>, FALSE>>, <<<<CR, LF>>, TRUE>> }

RECURSIVE Assemble(_, _, _, _)
Assemble(ls, eol, final, i) ==
    IF i > Len(ls) THEN <<>>
    ELSE ls[i] \o (IF i < Len(ls) \/ final THEN eol ELSE <<>>)
               \o Assemble(ls, eol, final, i + 1)

SeqsUpTo(S, n) == UNION {[1..m -> S] : m \in 0..n}

EnvTexts ==
    {Assemble(ls, st[1], st[2], 1) : ls \in SeqsUpTo(EnvLinePool, MaxEnvLines),
                                     st \in EolStyles}

PairPool ==
    { [k |-> <<"A">>, v |-> <<"9">>],
      [k |-> <<"C">>, v |-> <<>>],
      [k |-> <<"A", "-", "B">>, v |-> <<"1">>] }

\* dicts: key-value pairs in insertion order, the keys distinct
UpdateMaps ==
    {d \in SeqsUpTo(PairPool, Cardinality(PairPool)) :
        \A i, j \in 1..Len(d) : i # j => d[i].k # d[j].k}

----------------------------------------------------------------------------
(* The .env updater applied to an input, then to its own output *)

InitRender ==
    /\ stage = "input"
    /\ txt \in EnvTexts
    /\ upd \in UpdateMaps
    /\ lines = <<>>
    /\ out_lines = <<>>
    /\ fate = <<>>
    /\ res = NoText
    /\ res2 = NoText
    /\ WorkflowIdle /\ SetupIdle /\ PutIdle

Render ==
    /\ stage = "input"
    /\ lines' = SplitLines(txt)
    /\ out_lines' = FormatEnvLines(upd, txt)
    /\ res' = format_env(upd, txt)
    /\ stage' = "once"
    /\ UNCHANGED <<txt, upd, fate, res2, workflow, rest>>

RenderAgain ==
    /\ stage = "once"
    /\ res2' = format_env(upd, res)
    /\ stage' = "twice"
    /\ UNCHANGED <<txt, upd, lines, out_lines, fate, res, workflow, rest>>

NextRender == Render \/ RenderAgain

SpecRender == InitRender /\ [][NextRender]_vars

----------------------------------------------------------------------------
(* _parse_env and dict *)

SQUOTE == "'"

\* d[k] = v: a key the dict holds keeps its place
DictSet(d, k, v) ==
    IF HasKey(d, k)
    THEN [i \in 1..Len(d) |-> IF d[i].k = k THEN [k |-> k, v |-> v] ELSE d[i]]
    ELSE Append(d, [k |-> k, v |-> v])

\* d.update(u), from the pair i of u on
RECURSIVE DictUpdateFrom(_, _, _)
DictUpdateFrom(d, u, i) ==
    IF i > Len(u) THEN d
    ELSE DictUpdateFrom(DictSet(d, u[i].k, u[i].v), u, i + 1)

DictUpdate(d, u) == DictUpdateFrom(d, u, 1)

\* the index of the first "=" of a line that holds one
FirstEq(l) ==
    CHOOSE p \in 1..Len(l) : l[p] = "=" /\ \A q \in 1..(p - 1) : l[q] # "="

\* the value of a line: stripped, and without the quotes around it
Unquote(v) ==
    IF Len(v) >= 2 /\ ((v[1] = QUOTE /\ v[Len(v)] = QUOTE)
                       \/ (v[1] = SQUOTE /\ v[Len(v)] = SQUOTE))
    THEN SubSeq(v, 2, Len(v) - 1)
    ELSE v

\* the body of the loop of _parse_env: out after the line
ParseLine(out, line) ==
    LET l == Strip(line) IN
    IF l = <<>> \/ l[1] = "#" THEN out
    ELSE IF \A q \in 1..Len(l) : l[q] # "=" THEN out
    ELSE LET p == FirstEq(l)
         IN  DictSet(out, Strip(SubSeq(l, 1, p - 1)),
                     Unquote(Strip(SubSeq(l, p + 1, Len(l)))))

RECURSIVE ParseFrom(_, _, _)
ParseFrom(ls, i, out) ==
    IF i > Len(ls) THEN out ELSE ParseFrom(ls, i + 1, ParseLine(out, ls[i]))

\* _parse_env(content)
parse_env(content) == ParseFrom(SplitLines(content), 1, <<>>)

----------------------------------------------------------------------------
(* _strip_s3_vhost_from_caddyfile *)

\* line.count(c)
Count(line, c) == Cardinality({i \in 1..Len(line) : line[i] = c})

\* line.count("{") - line.count("}")
BraceDelta(line) == Count(line, "{") - Count(line, "}")

\* the end of the longest run of [^\s{] starting at i
LabelEnd(s, i) ==
    CHOOSE j \in i..(Len(s) + 1) :
        /\ (j = Len(s) + 1 \/ IsSpace(s[j]) \/ s[j] = "{")
        /\ \A k \in i..(j - 1) : ~IsSpace(s[k]) /\ s[k] # "{"

\* a variant whose pattern lacks the leading \s*
S3HeaderUnindented(line) ==
    LET b == LabelEnd(line, 4)
        c == SkipSpace(line, b)
    IN  /\ 3 <= Len(line)
        /\ line[1] = "s" /\ line[2] = "3" /\ line[3] = "."
        /\ b > 4
        /\ c <= Len(line)
        /\ line[c] = "{"
        /\ SkipSpace(line, c + 1) = Len(line) + 1

\* re.match(r"^\s*(s3\.[^\s{]+)\s*\{\s*$", line)
S3Header(line) ==
    LET a == SkipSpace(line, 1)
        b == LabelEnd(line, a + 3)
        c == SkipSpace(line, b)
    IN  /\ a + 2 <= Len(line)
        /\ line[a] = "s" /\ line[a + 1] = "3" /\ line[a + 2] = "."
        /\ b > a + 3
        /\ c <= Len(line)
        /\ line[c] = "{"
        /\ SkipSpace(line, c + 1) = Len(line) + 1

\* a variant that ends the block at the first line holding a closing brace
RECURSIVE BlockEndFirstClose(_, _, _)
BlockEndFirstClose(ls, i, depth) ==
    IF i <= Len(ls) /\ depth > 0
    THEN BlockEndFirstClose(ls, i + 1,
                            IF Count(ls[i], "}") > 0 THEN 0 ELSE depth)
    ELSE i

\* while i < len(lines) and depth > 0: the index i when the loop ends
RECURSIVE BlockEnd(_, _, _)
BlockEnd(ls, i, depth) ==
    IF i <= Len(ls) /\ depth > 0
    THEN BlockEnd(ls, i + 1, depth + BraceDelta(ls[i]))
    ELSE i

\* a variant that skips one blank line at most
BlankEndOne(ls, i) ==
    IF i <= Len(ls) /\ Strip(ls[i]) = <<>> THEN i + 1 ELSE i

\* while i < len(lines) and lines[i].strip() == "": the index i at its end
RECURSIVE BlankEnd(_, _)
BlankEnd(ls, i) ==
    IF i <= Len(ls) /\ Strip(ls[i]) = <<>> THEN BlankEnd(ls, i + 1) ELSE i

\* the outer loop from index i on: for each line whether it was appended to
\* out ("keep"), matched as a header and dropped ("header"), consumed by the
\* depth loop ("body") or consumed by the blank-line loop ("gap")
RECURSIVE ScanFrom(_, _)
ScanFrom(ls, i) ==
    IF i > Len(ls) THEN <<>>
    ELSE IF ~S3Header(ls[i]) THEN <<"keep">> \o ScanFrom(ls, i + 1)
    ELSE LET e == BlockEnd(ls, i + 1, BraceDelta(ls[i]))
             g == BlankEnd(ls, e)
         IN  <<"header">> \o [j \in 1..(e - i - 1) |-> "body"]
                          \o [j \in 1..(g - e) |-> "gap"]
                          \o ScanFrom(ls, g)

Fates(ls) == ScanFrom(ls, 1)

\* out when the outer loop ends
RECURSIVE KeptFrom(_, _, _)
KeptFrom(ls, f, i) ==
    IF i > Len(ls) THEN <<>>
    ELSE (IF f[i] = "keep" THEN <<ls[i]>> ELSE <<>>) \o KeptFrom(ls, f, i + 1)

StripLines(ls) == KeptFrom(ls, Fates(ls), 1)

\* _strip_s3_vhost_from_caddyfile(caddyfile)
strip_s3_vhost_from_caddyfile(caddyfile) ==
    RStrip(JoinLF(StripLines(SplitLines(caddyfile)))) \o <<LF>>

----------------------------------------------------------------------------
(* Inputs of the Caddyfile stripper *)

MaxCaddyLines == 4

CaddyLinePool ==
    { <<"a", " ", "{">>,
      <<"s", "3", ".", "a", " ", "{">>,
      <<" ", "s", "3", ".", "b", "{", " ">>,
      <<"x">>,
      <<"}">>,
      <<>>,
      <<" ">> }

CaddyTexts ==
    {Assemble(ls, <<LF>>, TRUE, 1) :
        ls \in SeqsUpTo(CaddyLinePool, MaxCaddyLines)}

----------------------------------------------------------------------------
(* The stripper applied to an input, then to its own output *)

InitStrip ==
    /\ stage = "input"
    /\ txt \in CaddyTexts
    /\ upd = <<>>
    /\ lines = <<>>
    /\ out_lines = <<>>
    /\ fate = <<>>
    /\ res = NoText
    /\ res2 = NoText
    /\ WorkflowIdle /\ SetupIdle /\ PutIdle

StripOnce ==
    /\ stage = "input"
    /\ lines' = SplitLines(txt)
    /\ fate' = Fates(SplitLines(txt))
    /\ out_lines' = StripLines(SplitLines(txt))
    /\ res' = strip_s3_vhost_from_caddyfile(txt)
    /\ stage' = "once"
    /\ UNCHANGED <<txt, upd, res2, workflow, rest>>

StripAgain ==
    /\ stage = "once"
    /\ res2' = strip_s3_vhost_from_caddyfile(res)
    /\ stage' = "twice"
    /\ UNCHANGED <<txt, upd, lines, out_lines, fate, res, workflow, rest>>

NextStrip == StripOnce \/ StripAgain

SpecStrip == InitStrip /\ [][NextStrip]_vars

----------------------------------------------------------------------------
(* Properties of the Caddyfile stripper *)

\* the braces opened less the braces closed on the lines a..b of the input
RECURSIVE Cum(_, _)
Cum(a, b) == IF a > b THEN 0 ELSE BraceDelta(lines[a]) + Cum(a + 1, b)

\* a header line of any label: a label with no white space and no "{", then
\* "{" and nothing else
AnyHeader(line) ==
    LET a == SkipSpace(line, 1)
        b == LabelEnd(line, a)
        c == SkipSpace(line, b)
    IN  /\ a <= Len(line)
        /\ b > a
        /\ c <= Len(line)
        /\ line[c] = "{"
        /\ SkipSpace(line, c + 1) = Len(line) + 1

Blank(line) == \A i \in 1..Len(line) : IsSpace(line[i])

\* the line h is inside the block of the header line g: the block is open on
\* every line from g to h - 1
InsideBlockOf(g, h) == g < h /\ \A e \in g..(h - 1) : Cum(g, e) > 0

\* the line h is inside a block whose header the stripper kept
InsideRetainedBlock(h) ==
    \E g \in 1..(h - 1) :
        /\ AnyHeader(lines[g]) /\ ~S3Header(lines[g])
        /\ fate[g] = "keep"
        /\ InsideBlockOf(g, h)

\* the block of the header line h has no line that closes it
Unterminated(h) == \A e \in h..Len(lines) : Cum(h, e) > 0

\* the last line of the block of the header line h: the first line after h
\* that brings the brace count back to 0, or the last line of the input
SpanEnd(h) ==
    IF Unterminated(h) THEN Len(lines)
    ELSE CHOOSE e \in h..Len(lines) :
            Cum(h, e) <= 0 /\ \A k \in h..(e - 1) : Cum(h, k) > 0

\* the number of lines among the first i that were appended to out
KeptUpTo(i) == Cardinality({j \in 1..i : fate[j] = "keep"})

\* C6 (as claimed): a line is taken as the start of a block to remove only at
\* brace depth 0; the lines inside a block that is retained, a line shaped
\* like a matching header among them, all reach the output.
C6_TopLevelOnly ==
    stage # "input" =>
        \A h \in 1..Len(lines) : InsideRetainedBlock(h) => fate[h] = "keep"

\* C7: a removed block is the header line and every line up to the first one
\* that brings the brace count, taken from the header on, back to 0; no line
\* of it is in the output, an inner closing brace does not end it, and the
\* first non-blank line after it is examined like any other line.
C7_RemovedAsOneUnit ==
    stage # "input" =>
        /\ Len(fate) = Len(lines)
        /\ Len(out_lines) = KeptUpTo(Len(lines))
        /\ \A i \in 1..Len(lines) :
              fate[i] = "keep" => out_lines[KeptUpTo(i)] = lines[i]
        /\ \A h \in 1..Len(lines) :
              fate[h] = "header" =>
                LET e == SpanEnd(h) IN
                /\ S3Header(lines[h])
                /\ \A j \in (h + 1)..e : fate[j] = "body"
                /\ e < Len(lines) => fate[e + 1] # "body"
                /\ \A k \in (e + 1)..Len(lines) :
                      (~Blank(lines[k])
                          /\ \A j \in (e + 1)..(k - 1) : Blank(lines[j]))
                      => fate[k] = IF S3Header(lines[k]) THEN "header"
                                   ELSE "keep"

C7_Witness ==
    /\ stage = "once"
    /\ \E h \in 1..Len(lines) :
        /\ fate[h] = "header"
        /\ SpanEnd(h) >= h + 3
        /\ \E j \in (h + 1)..(SpanEnd(h) - 1) : Count(lines[j], "}") > 0
        /\ ~Unterminated(h)

\* C8 (as claimed): a block whose header has no closing line before the end
\* of the input is discarded from its header to the last line when its label
\* matches, and retained from its header to the last line when it does not.
C8_UnterminatedBlock ==
    stage # "input" =>
        \A h \in 1..Len(lines) :
            (AnyHeader(lines[h]) /\ Cum(1, h - 1) = 0 /\ Unterminated(h)) =>
                IF S3Header(lines[h])
                THEN \A j \in h..Len(lines) : fate[j] \in {"header", "body"}
                ELSE \A j \in h..Len(lines) : fate[j] = "keep"

\* C9: the blank lines right after a removed block are discarded up to the
\* next non-blank line, a blank line anywhere else outside a removed block is
\* kept, and the result is the kept lines without trailing white space,
\* ended by exactly one newline.
C9_BlankLinesAndEnd ==
    stage # "input" =>
        /\ \A i \in 1..Len(lines) :
              Blank(lines[i]) =>
                IF i > 1 /\ fate[i - 1] # "keep"
                THEN fate[i] \in {"body", "gap"}
                ELSE fate[i] = "keep" /\ out_lines[KeptUpTo(i)] = lines[i]
        /\ \A i \in 1..Len(lines) :
              fate[i] = "gap" =>
                /\ Blank(lines[i])
                /\ i > 1
                /\ fate[i - 1] \in {"header", "body", "gap"}
        /\ LET n == Len(res)
               joined == JoinLF(out_lines)
           IN  /\ n >= 1 /\ res[n] = LF
               /\ n > 1 => ~IsSpace(res[n - 1])
               /\ n - 1 <= Len(joined)
               /\ SubSeq(res, 1, n - 1) = SubSeq(joined, 1, n - 1)
               /\ \A k \in n..Len(joined) : IsSpace(joined[k])

C9_Witness ==
    /\ stage = "once"
    /\ \E i \in 2..(Len(lines) - 1) :
        /\ fate[i - 1] = "body"
        /\ fate[i] = "gap" /\ fate[i + 1] = "gap"
        /\ lines[i] # lines[i + 1]

----------------------------------------------------------------------------
(* Properties of the .env updater *)

\* the line i of the input is a key-value line whose key is in the update map
Updated(i) == EnvMatch(lines[i]) /\ HasKey(upd, EnvKey(lines[i]))

\* the positions in the update map of the keys no key-value line defines
MissingIdx ==
    {i \in 1..Len(upd) :
        ~\E j \in 1..Len(lines) :
            EnvMatch(lines[j]) /\ EnvKey(lines[j]) = upd[i].k}

\* C1 (as claimed): rendering the output of a render again, with the same
\* update map, returns that output unchanged.
C1_Idempotent == stage = "twice" => res2 = res

\* C2 (as claimed): when several key-value lines define a key of the update
\* map, every line after the first of them is copied to the output unchanged.
C2_LaterDuplicatesUnchanged ==
    stage # "input" =>
        \A i, j \in 1..Len(lines) :
            (i < j /\ Updated(i) /\ Updated(j)
                /\ EnvKey(lines[i]) = EnvKey(lines[j]))
            => out_lines[j] = lines[j]

\* C2 (amended): every key-value line whose key is in the update map is
\* rewritten to key="value", the first such line and every later line that
\* defines the same key alike.
C2_EveryDefinitionRewritten ==
    stage # "input" =>
        \A j \in 1..Len(lines) :
            Updated(j) =>
                out_lines[j] = KeyValueLine(EnvKey(lines[j]),
                                            Lookup(upd, EnvKey(lines[j])))

C2_Witness ==
    /\ stage = "once"
    /\ \E i, j \in 1..Len(lines) :
        /\ i < j /\ Updated(i) /\ Updated(j)
        /\ EnvKey(lines[i]) = EnvKey(lines[j])
        /\ out_lines[j] # lines[j]

\* C3: every input line that is not a key-value line for a key of the update
\* map is in the output unchanged and at the same position, and the output
\* lines before the appended block are as many as the input lines.
C3_OtherLinesUntouched ==
    stage # "input" =>
        LET n == Len(lines) IN
        /\ Len(out_lines) >= n
        /\ \A i \in 1..n : ~Updated(i) => out_lines[i] = lines[i]
        /\ \A i \in 1..n :
              Updated(i) => EnvKey(out_lines[i]) = EnvKey(lines[i])
        /\ Len(out_lines) > n =>
              /\ Len(out_lines) >= n + 3
              /\ out_lines[n + 1] = <<>>
              /\ out_lines[n + 2] = Marker
        /\ SubSeq(SplitLines(res), 1, n) = SubSeq(out_lines, 1, n)

C3_Witness ==
    /\ stage = "once"
    /\ Len(out_lines) > Len(lines)
    /\ \E i, k \in 1..Len(lines) :
        /\ Updated(i)
        /\ out_lines[i] # lines[i]
        /\ EnvMatch(lines[k]) /\ ~Updated(k)
        /\ lines[k] # Strip(lines[k])

\* C4: a block is appended exactly when a key of the update map is on no
\* key-value line of the input: a blank line, the marker comment, then one
\* key="value" line for each missing key, once each, in the order of the map.
C4_AppendedBlock ==
    stage # "input" =>
        LET n == Len(lines)
            miss == MissingIdx
            rank(i) == Cardinality({j \in miss : j <= i})
        IN  IF miss = {}
            THEN Len(out_lines) = n
            ELSE /\ Len(out_lines) = n + 2 + Cardinality(miss)
                 /\ out_lines[n + 1] = <<>>
                 /\ out_lines[n + 2] = Marker
                 /\ \A i \in miss :
                        out_lines[n + 2 + rank(i)] =
                            KeyValueLine(upd[i].k, upd[i].v)

C4_Witness ==
    /\ stage = "once"
    /\ Cardinality(MissingIdx) = 2
    /\ \E j \in 1..Len(lines) : Updated(j)
    /\ Len(out_lines) = Len(lines) + 4

C4_WitnessNothingMissing ==
    /\ stage = "once"
    /\ upd # <<>>
    /\ MissingIdx = {}
    /\ Len(out_lines) = Len(lines)

\* s with every trailing \n and \r removed
RECURSIVE DropTrailingNewlines(_)
DropTrailingNewlines(s) ==
    IF s # <<>> /\ s[Len(s)] \in {LF, CR}
    THEN DropTrailingNewlines(SubSeq(s, 1, Len(s) - 1))
    ELSE s

\* s with every \r\n and every other \r replaced by \n
UnixNewlines(s) ==
    LET kept ==
            SelectSeq([i \in 1..Len(s) |-> i],
                      LAMBDA i : ~(s[i] = CR /\ i < Len(s) /\ s[i + 1] = LF))
    IN  [j \in 1..Len(kept) |-> IF s[kept[j]] = CR THEN LF ELSE s[kept[j]]]

\* C5 (as claimed): with an empty update map the output is the input, its
\* trailing newlines aside.
C5_RoundTripBytes ==
    (stage # "input" /\ upd = <<>>) =>
        DropTrailingNewlines(res) = DropTrailingNewlines(txt)

\* C5 (amended): with an empty update map the output is the input with every
\* line terminator (\r\n, \r) rewritten to \n and one \n added when the last
\* line had none; for a text whose terminators are all \n that is the input,
\* a final \n aside.
C5_RoundTripLines ==
    (stage # "input" /\ upd = <<>>) =>
        LET u == UnixNewlines(txt) IN
        /\ res = IF u # <<>> /\ u[Len(u)] = LF THEN u ELSE u \o <<LF>>
        /\ Len(out_lines) = Len(lines)
        /\ (\A i \in 1..Len(txt) : txt[i] # CR) =>
              res \in {txt, txt \o <<LF>>}

C5_Witness ==
    /\ stage = "once"
    /\ upd = <<>>
    /\ Len(lines) = 2
    /\ \E i \in 1..Len(txt) : txt[i] = CR
    /\ \A i \in 1..Len(lines) : lines[i] # <<>>
    /\ res # txt

C5_WitnessUnchanged ==
    /\ stage = "once"
    /\ upd = <<>>
    /\ Len(lines) = 2
    /\ res = txt

----------------------------------------------------------------------------
(* main: the migration workflow, run after run against the same server *)

MaxRuns == 2

env_path == "/opt/langfuse/.env"
caddy_path == "/opt/langfuse/Caddyfile"

MediaPrefix ==
    <<"L", "A", "N", "G", "F", "U", "S", "E", "_", "S", "3", "_", "M", "E",
      "D", "I", "A", "_", "U", "P", "L", "O", "A", "D", "_">>

MediaKey(suffix) == MediaPrefix \o suffix

\* r2_endpoint
R2Endpoint(account_id) ==
        <<"h", "t", "t", "p", "s", ":", "/", "/">>
        \o account_id \o
        <<".", "r", "2", ".", "c", "l", "o", "u", "d", "f", "l", "a", "r",
          "e", "s", "t", "o", "r", "a", "g", "e", ".", "c", "o", "m">>

\* updates
Updates(e) ==
    << [k |-> MediaKey(<<"B", "U", "C", "K", "E", "T">>),
        v |-> e.bucket],
       [k |-> MediaKey(<<"R", "E", "G", "I", "O", "N">>),
        v |-> <<"a", "u", "t", "o">>],
       [k |-> MediaKey(<<"A", "C", "C", "E", "S", "S", "_", "K", "E", "Y", "_",
                         "I", "D">>),
        v |-> e.access_key],
       [k |-> MediaKey(<<"S", "E", "C", "R", "E", "T", "_", "A", "C", "C", "E",
                         "S", "S", "_", "K", "E", "Y">>),
        v |-> e.secret_key],
       [k |-> MediaKey(<<"E", "N", "D", "P", "O", "I", "N", "T">>),
        v |-> R2Endpoint(e.account_id)],
       [k |-> MediaKey(<<"F", "O", "R", "C", "E", "_", "P", "A", "T", "H", "_",
                         "S", "T", "Y", "L", "E">>),
        v |-> <<"t", "r", "u", "e">>] >>

\* the R2_* variables _require_env returns: stripped and not empty
R2Settings ==
    { [account_id |-> <<"i">>, access_key |-> <<"k">>,
       secret_key |-> <<"s">>, bucket |-> b] : b \in {<<"m">>, <<"n">>} }

\* what the server may hold in /opt/langfuse/.env before the first run
RemoteEnvFiles ==
    { <<>>,
      <<"A", "=", "1", LF>>,
      <<"#", "c", LF, " ", "B", " ", "=", " ", QUOTE, "2", QUOTE, LF>>,
      <<"A", "-", "B", "=", "1", LF>>,
      MediaKey(<<"B", "U", "C", "K", "E", "T">>)
          \o <<"=", QUOTE, "m", QUOTE, CR, LF, "A", "=", QUOTE, "1", QUOTE>> }

\* what the server may hold in /opt/langfuse/Caddyfile before the first run
RemoteCaddyFiles ==
    { <<"a", " ", "{", LF, "}", LF>>,
      <<"a", " ", "{", LF, "}">>,
      <<"a", " ", "{", LF, "}", LF, LF,
        "s", "3", ".", "a", " ", "{", LF, "x", LF, "}", LF>>,
      <<"s", "3", ".", "a", " ", "{", LF, "}", LF, LF, "a", " ", "{", LF, "}",
        LF>>,
      <<"a", " ", "{", LF, "s", "3", ".", "a", " ", "{", LF, "}", LF, "}",
        LF>> }

Init ==
    /\ HarnessIdle /\ SetupIdle /\ PutIdle
    /\ pc = "start"
    /\ r2 \in R2Settings
    /\ envFile \in RemoteEnvFiles
    /\ caddyFile \in RemoteCaddyFiles
    /\ env_text = NoText /\ new_env_text = NoText
    /\ caddy_text = NoText /\ new_caddy_text = NoText
    /\ puts = <<>>
    /\ runs = 0

\* env_text = ssh.get_text(env_path)
GetEnv ==
    /\ pc = "start"
    /\ env_text' = envFile
    /\ pc' = "env_read"
    /\ UNCHANGED <<others, r2, envFile, caddyFile, new_env_text, caddy_text,
                   new_caddy_text, puts, runs>>

\* env_vars = _parse_env(env_text); env_vars.update(updates);
\* new_env_text = _format_env(env_vars, env_text)
FormatEnv ==
    /\ pc = "env_read"
    /\ new_env_text' =
          format_env(DictUpdate(parse_env(env_text), Updates(r2)), env_text)
    /\ pc' = "env_formatted"
    /\ UNCHANGED <<others, r2, envFile, caddyFile, env_text, caddy_text,
                   new_caddy_text, puts, runs>>

\* ssh.put_text(env_path, new_env_text, mode=0o600)
PutEnv ==
    /\ pc = "env_formatted"
    /\ envFile' = new_env_text
    /\ puts' = Append(puts, env_path)
    /\ pc' = "env_put"
    /\ UNCHANGED <<others, r2, caddyFile, env_text, new_env_text, caddy_text,
                   new_caddy_text, runs>>

\* caddy_text = ssh.get_text(caddy_path)
GetCaddy ==
    /\ pc = "env_put"
    /\ caddy_text' = caddyFile
    /\ pc' = "caddy_read"
    /\ UNCHANGED <<others, r2, envFile, caddyFile, env_text, new_env_text,
                   new_caddy_text, puts, runs>>

\* new_caddy_text = _strip_s3_vhost_from_caddyfile(caddy_text)
StripCaddy ==
    /\ pc = "caddy_read"
    /\ new_caddy_text' = strip_s3_vhost_from_caddyfile(caddy_text)
    /\ pc' = "caddy_stripped"
    /\ UNCHANGED <<others, r2, envFile, caddyFile, env_text, new_env_text,
                   caddy_text, puts, runs>>

\* a variant that writes the Caddyfile back without comparing
PutCaddyAlways ==
    /\ pc = "caddy_stripped"
    /\ caddyFile' = new_caddy_text
    /\ puts' = Append(puts, caddy_path)
    /\ pc' = "restart"
    /\ UNCHANGED <<others, r2, envFile, env_text, new_env_text, caddy_text,
                   new_caddy_text, runs>>

\* if new_caddy_text != caddy_text: ssh.put_text(caddy_path, new_caddy_text)
PutCaddy ==
    /\ pc = "caddy_stripped"
    /\ new_caddy_text # caddy_text
    /\ caddyFile' = new_caddy_text
    /\ puts' = Append(puts, caddy_path)
    /\ pc' = "restart"
    /\ UNCHANGED <<others, r2, envFile, env_text, new_env_text, caddy_text,
                   new_caddy_text, runs>>

\* the if of line 202 not taken
SkipCaddy ==
    /\ pc = "caddy_stripped"
    /\ new_caddy_text = caddy_text
    /\ pc' = "restart"
    /\ UNCHANGED <<others, r2, envFile, caddyFile, env_text, new_env_text,
                   caddy_text, new_caddy_text, puts, runs>>

\* the three ssh.run of lines 206-208, and return 0
Restart ==
    /\ pc = "restart"
    /\ pc' = "done"
    /\ runs' = runs + 1
    /\ UNCHANGED <<others, r2, envFile, caddyFile, env_text, new_env_text,
                   caddy_text, new_caddy_text, puts>>

\* the script is run again, with the same environment, on the same server
RunAgain ==
    /\ pc = "done"
    /\ runs < MaxRuns
    /\ pc' = "start"
    /\ env_text' = NoText /\ new_env_text' = NoText
    /\ caddy_text' = NoText /\ new_caddy_text' = NoText
    /\ puts' = <<>>
    /\ UNCHANGED <<others, r2, envFile, caddyFile, runs>>

Next ==
    \/ GetEnv \/ FormatEnv \/ PutEnv
    \/ GetCaddy \/ StripCaddy \/ PutCaddy \/ SkipCaddy
    \/ Restart \/ RunAgain

Spec == Init /\ [][Next]_vars

----------------------------------------------------------------------------
(* Properties of the workflow *)

Issued(path) == \E i \in 1..Len(puts) : puts[i] = path

\* C10 (as claimed): a remote file is written only if its new text differs
\* from the text read: no write of .env when the rendered text equals the
\* text read, no write of the Caddyfile when the stripped text equals it.
C10_WriteOnlyIfChanged ==
    /\ Issued(env_path) => new_env_text # env_text
    /\ Issued(caddy_path) => new_caddy_text # caddy_text

\* C10 (amended): the Caddyfile is written only if the stripped text differs
\* from the text read; the .env is written in every run, once, whether or not
\* the rendered text differs from the text read.
C10_CaddyOnlyIfChanged ==
    /\ Issued(caddy_path) => new_caddy_text # caddy_text
    /\ pc \in {"restart", "done"} =>
          (Issued(caddy_path) <=> new_caddy_text # caddy_text)
    /\ pc \in {"env_put", "caddy_read", "caddy_stripped", "restart", "done"} =>
          /\ Issued(env_path)
          /\ envFile = new_env_text
    /\ Cardinality({i \in 1..Len(puts) : puts[i] = env_path}) <= 1
    /\ pc \in {"restart", "done"} =>
          caddyFile = IF Issued(caddy_path) THEN new_caddy_text ELSE caddy_text

C10_Witness ==
    /\ pc = "done"
    /\ new_env_text = env_text
    /\ Issued(env_path)
    /\ new_caddy_text = caddy_text
    /\ ~Issued(caddy_path)

\* the six keys of updates
MediaKeys == {Updates(r2)[i].k : i \in 1..Len(Updates(r2))}

\* the line defines one of the six media keys
DefinesMediaKey(line) == EnvMatch(line) /\ EnvKey(line) \in MediaKeys

\* C11 (as claimed): the .env text the workflow writes back keeps every line
\* that does not define one of the six LANGFUSE_S3_MEDIA_UPLOAD_* keys
\* identical to the line read, at its place, and appends no key other than
\* missing ones of those six.
C11_OnlyMediaKeysChanged ==
    pc \in {"env_formatted", "env_put"} =>
        LET in == SplitLines(env_text)
            out == SplitLines(new_env_text)
        IN  /\ \A i \in 1..Len(in) :
                  ~DefinesMediaKey(in[i]) => out[i] = in[i]
            /\ \A j \in (Len(in) + 1)..Len(out) :
                  \/ out[j] = <<>>
                  \/ out[j] = Marker
                  \/ DefinesMediaKey(out[j])

\* the shape of a removable header: optional whitespace, a label that starts
\* with s3. and holds neither whitespace nor an opening brace, optional
\* whitespace, an opening brace, optional whitespace, the end of the line
HeaderShape(line) ==
    LET t == Strip(line)
        label == RStrip(SubSeq(t, 1, Len(t) - 1))
    IN  /\ Len(t) >= 5
        /\ t[Len(t)] = "{"
        /\ Len(label) >= 4
        /\ label[1] = "s" /\ label[2] = "3" /\ label[3] = "."
        /\ \A k \in 1..Len(label) : ~IsSpace(label[k]) /\ label[k] # "{"

\* C14: the output of the stripper holds no line with the shape of a
\* removable header, and stripping the output again returns it unchanged:
\* strip(strip(text)) = strip(text).
C14_StripIdempotent ==
    /\ stage \in {"once", "twice"} =>
           \A i \in 1..Len(SplitLines(res)) : ~HeaderShape(SplitLines(res)[i])
    /\ stage = "twice" => res2 = res

\* an input with a header, whose stripping changed the text and left lines,
\* stripped a second time
C14_Witness ==
    /\ stage = "twice"
    /\ \E i \in 1..Len(fate) : fate[i] = "header"
    /\ \E i \in 1..Len(fate) : fate[i] = "keep" /\ Strip(lines[i]) # <<>>
    /\ res # txt
    /\ res2 = res

\* C14, in the workflow: a run after the first one finds the Caddyfile
\* unchanged and does not write it.
C14_SecondRunUnchanged ==
    (runs >= 1 /\ pc \in {"caddy_stripped", "restart"}) =>
        /\ new_caddy_text = caddy_text
        /\ ~Issued(caddy_path)

----------------------------------------------------------------------------
(* scripts/vps_setup_langfuse.py: the Caddyfile and .env the setup uploads *)

\* "langfuse.omniforge.com.br"
HardWeb ==
    <<"l", "a", "n", "g", "f", "u", "s", "e", ".", "o", "m", "n", "i", "f",
      "o", "r", "g", "e", ".", "c", "o", "m", ".", "b", "r">>

\* "s3.langfuse.omniforge.com.br"
HardS3 == <<"s", "3", ".">> \o HardWeb

Https == <<"h", "t", "t", "p", "s", ":", "/", "/">>

\* s[p:].startswith(old), p counted from 1
OccursAt(s, p, old) ==
    /\ p + Len(old) - 1 <= Len(s)
    /\ SubSeq(s, p, p + Len(old) - 1) = old

\* s.find(old, i): the first occurrence at or after i, 0 when there is none
Find(s, i, old) ==
    IF \E p \in i..Len(s) : OccursAt(s, p, old)
    THEN CHOOSE p \in i..Len(s) :
             /\ OccursAt(s, p, old)
             /\ \A q \in i..(p - 1) : ~OccursAt(s, q, old)
    ELSE 0

\* s[i:].replace(old, new) for a non-empty old: the occurrences are taken
\* from left to right and do not overlap
RECURSIVE ReplaceFrom(_, _, _, _)
ReplaceFrom(s, i, old, new) ==
    LET p == Find(s, i, old)
    IN  IF p = 0 THEN SubSeq(s, i, Len(s))
        ELSE SubSeq(s, i, p - 1) \o new
                 \o ReplaceFrom(s, p + Len(old), old, new)

\* s.replace(old, new)
Replace(s, old, new) == ReplaceFrom(s, 1, old, new)

\* an environment variable that is not set
Unset == <<"<unset>">>

\* os.environ.get(name, default).strip()
EnvGet(e, name, default) ==
    Strip(IF e[name] = Unset THEN default ELSE e[name])

\* domain_web, domain_s3 and the VPSConfig made of them
MakeConfig(e) ==
    LET domain_web == EnvGet(e, "LANGFUSE_DOMAIN", HardWeb)
        domain_s3 == EnvGet(e, "LANGFUSE_S3_DOMAIN",
                            <<"s", "3", ".">> \o domain_web)
    IN  [domain_web |-> domain_web, domain_s3 |-> domain_s3]

\* the line of build_env_file that names the S3 host
EndpointLine(c) ==
    KeyValueLine(MediaKey(<<"E", "N", "D", "P", "O", "I", "N", "T">>),
                 Https \o c.domain_s3)

\* build_env_file(cfg), its lines that depend on cfg: the other lines hold
\* fixed values and freshly generated secrets
build_env_file(c) ==
    JoinLF(<< KeyValueLine(<<"N", "E", "X", "T", "A", "U", "T", "H", "_",
                             "U", "R", "L">>, Https \o c.domain_web),
              EndpointLine(c),
              <<>> >>)

\* the values of LANGFUSE_DOMAIN and of LANGFUSE_S3_DOMAIN
WebDomains == { Unset, <<"w", ".", "i", "o">>, <<" ", "w", ".", "i", "o">> }

S3Domains == { Unset, <<"m", ".", "i", "o">>, HardS3 }

Environs ==
    [LANGFUSE_DOMAIN : WebDomains, LANGFUSE_S3_DOMAIN : S3Domains]

\* the contents of deploy/vps/Caddyfile: up to MaxPieces pieces of text, each
\* a hard-coded host or other text
MaxPieces == 3

PiecePool == { HardWeb, HardS3, <<" ", "{", LF, "}", LF>>, <<"x", ".">> }

DeployCaddyfiles ==
    {Assemble(ps, <<>>, FALSE, 1) : ps \in SeqsUpTo(PiecePool, MaxPieces)}

InitSetup ==
    /\ HarnessIdle /\ PutIdle
    /\ pc = "setup_start"
    /\ r2 = <<>>
    /\ envFile = NoText /\ caddyFile = NoText
    /\ env_text = NoText /\ new_env_text = NoText
    /\ caddy_text = NoText /\ new_caddy_text = NoText
    /\ puts = <<>>
    /\ runs = 0
    /\ environ \in Environs
    /\ deployCaddyfile \in DeployCaddyfiles
    /\ cfg = <<>>
    /\ env_bytes = NoText /\ caddyfile_bytes = NoText

\* domain_web = ...; domain_s3 = ...; cfg = VPSConfig(...)
SetupConfig ==
    /\ pc = "setup_start"
    /\ cfg' = MakeConfig(environ)
    /\ pc' = "setup_cfg"
    /\ UNCHANGED <<harness, putv, r2, envFile, caddyFile, env_text,
                   new_env_text, caddy_text, new_caddy_text, puts, runs,
                   environ, deployCaddyfile, env_bytes, caddyfile_bytes>>

\* env_bytes = build_env_file(cfg);
\* caddyfile_bytes = _read_file(DEPLOY_DIR / "Caddyfile")
SetupRead ==
    /\ pc = "setup_cfg"
    /\ env_bytes' = build_env_file(cfg)
    /\ caddyfile_bytes' = deployCaddyfile
    /\ pc' = "setup_read"
    /\ UNCHANGED <<harness, putv, r2, envFile, caddyFile, env_text,
                   new_env_text, caddy_text, new_caddy_text, puts, runs,
                   environ, deployCaddyfile, cfg>>

\* caddy_text = caddyfile_bytes.decode("utf-8");
\* caddy_text = caddy_text.replace("langfuse.omniforge.com.br", cfg.domain_web)
\* (the texts are ASCII: their UTF-8 bytes are their characters)
ReplaceWeb ==
    /\ pc = "setup_read"
    /\ caddy_text' = Replace(caddyfile_bytes, HardWeb, cfg.domain_web)
    /\ pc' = "setup_web"
    /\ UNCHANGED <<harness, putv, setupv, r2, envFile, caddyFile, env_text,
                   new_env_text, new_caddy_text, puts, runs>>

\* caddy_text = caddy_text.replace("s3.langfuse.omniforge.com.br",
\*                                 cfg.domain_s3);
\* caddyfile_bytes = caddy_text.encode("utf-8")
ReplaceS3 ==
    /\ pc = "setup_web"
    /\ caddy_text' = Replace(caddy_text, HardS3, cfg.domain_s3)
    /\ caddyfile_bytes' = Replace(caddy_text, HardS3, cfg.domain_s3)
    /\ pc' = "setup_s3"
    /\ UNCHANGED <<harness, putv, r2, envFile, caddyFile, env_text,
                   new_env_text, new_caddy_text, puts, runs,
                   environ, deployCaddyfile, cfg, env_bytes>>

\* with SSH(...) as ssh: ...
\* ssh.put_bytes("/opt/langfuse/Caddyfile", caddyfile_bytes, mode=0o644);
\* ssh.put_bytes("/opt/langfuse/.env", env_bytes, mode=0o600); ...
Upload ==
    /\ pc = "setup_s3"
    /\ caddyFile' = caddyfile_bytes
    /\ envFile' = env_bytes
    /\ pc' = "setup_done"
    /\ UNCHANGED <<harness, putv, setupv, r2, env_text, new_env_text,
                   caddy_text, new_caddy_text, puts, runs>>

NextSetup == SetupConfig \/ SetupRead \/ ReplaceWeb \/ ReplaceS3 \/ Upload

SpecSetup == InitSetup /\ [][NextSetup]_vars

----------------------------------------------------------------------------
(* Properties of the setup *)

\* text from i on, with each occurrence of the hard-coded S3 host replaced
\* by domain_s3 and each other occurrence of the hard-coded web host
\* replaced by domain_web
RECURSIVE EachHostReplacedFrom(_, _, _)
EachHostReplacedFrom(s, i, c) ==
    LET p == Find(s, i, HardWeb)
    IN  IF p = 0 THEN SubSeq(s, i, Len(s))
        ELSE IF p - 3 >= i /\ OccursAt(s, p - 3, HardS3)
        THEN SubSeq(s, i, p - 4) \o c.domain_s3
                 \o EachHostReplacedFrom(s, p + Len(HardWeb), c)
        ELSE SubSeq(s, i, p - 1) \o c.domain_web
                 \o EachHostReplacedFrom(s, p + Len(HardWeb), c)

\* C12 (as claimed): for every configured pair (domain_web, domain_s3), the
\* Caddyfile uploaded has each occurrence of s3.langfuse.omniforge.com.br
\* replaced by cfg.domain_s3 and each other occurrence of
\* langfuse.omniforge.com.br replaced by cfg.domain_web, and the .env
\* uploaded names https://cfg.domain_s3 as the media endpoint.
C12_BothHostsReplaced ==
    pc = "setup_done" =>
        /\ caddyFile = EachHostReplacedFrom(deployCaddyfile, 1, cfg)
        /\ \E i \in 1..Len(SplitLines(envFile)) :
               SplitLines(envFile)[i] = EndpointLine(cfg)

\* what the code does with the hard-coded S3 host whenever the web domain is
\* configured: it becomes s3.<domain_web>, whatever cfg.domain_s3 is
C12_S3HostFollowsWebDomain ==
    (pc = "setup_done" /\ cfg.domain_web # HardWeb) =>
        caddyFile = Replace(deployCaddyfile, HardWeb, cfg.domain_web)

----------------------------------------------------------------------------
(* SSH.put_text and SSH.put_bytes: the replacement of a remote file, one   *)
(* SFTP request at a time.  A request may fail; the exception ends the     *)
(* call, except for the OSError of sftp.remove, which the code swallows.   *)

\* a remote path with no file, and a file with its content and mode
Absent == [exists |-> FALSE, content |-> <<>>, mode |-> "none"]

File(content, mode) == [exists |-> TRUE, content |-> content, mode |-> mode]

\* the mode argument: 0o600 for .env, 0o644 for the other files
Modes == {"0o600", "0o644"}

\* the mode a server gives a file that sftp.file(tmp, "wb") creates
CreateModes == {"0o644", "0o664"}

\* the content argument
PutTexts == { <<"n", "e", "w", LF>>, <<"o", "l", "d", LF>> }

\* the file at remote_path before the call
PrevFiles ==
    {Absent} \cup {File(c, m) : c \in { <<"o", "l", "d", LF>>, <<>> },
                                m \in Modes}

\* what a failed f.write(b) may leave in the file: any part of b
Prefixes(b) == {SubSeq(b, 1, n) : n \in 0..Len(b)}

PutStates ==
    {"put_call", "put_opened", "put_written", "put_chmodded", "put_removed",
     "put_returned", "put_raised"}

InitPut ==
    /\ HarnessIdle /\ SetupIdle
    /\ pc = "put_call"
    /\ r2 = <<>>
    /\ envFile = NoText /\ caddyFile = NoText
    /\ env_text = NoText /\ new_env_text = NoText
    /\ caddy_text = NoText /\ new_caddy_text = NoText
    /\ puts = <<>>
    /\ runs = 0
    /\ call \in [content : PutTexts, mode : Modes, prev : PrevFiles]
    /\ destFile = call.prev
    /\ tmpFile = Absent
    /\ overwrites \in BOOLEAN

\* sftp.file(tmp, "wb"): the temp file is created empty
PutOpen ==
    /\ pc = "put_call"
    /\ \E m \in CreateModes : tmpFile' = File(<<>>, m)
    /\ pc' = "put_opened"
    /\ UNCHANGED <<harness, workflow_data, setupv, call, destFile, overwrites>>

PutOpenFails ==
    /\ pc = "put_call"
    /\ pc' = "put_raised"
    /\ UNCHANGED <<harness, workflow_data, setupv, putv>>

\* f.write(b) and the close of the with block
PutWrite ==
    /\ pc = "put_opened"
    /\ tmpFile' = [tmpFile EXCEPT !.content = call.content]
    /\ pc' = "put_written"
    /\ UNCHANGED <<harness, workflow_data, setupv, call, destFile, overwrites>>

PutWriteFails ==
    /\ pc = "put_opened"
    /\ \E part \in Prefixes(call.content) :
           tmpFile' = [tmpFile EXCEPT !.content = part]
    /\ pc' = "put_raised"
    /\ UNCHANGED <<harness, workflow_data, setupv, call, destFile, overwrites>>

\* a variant without the chmod
PutChmodSkipped ==
    /\ pc = "put_written"
    /\ pc' = "put_chmodded"
    /\ UNCHANGED <<harness, workflow_data, setupv, putv>>

\* sftp.chmod(tmp, mode)
PutChmod ==
    /\ pc = "put_written"
    /\ tmpFile' = [tmpFile EXCEPT !.mode = call.mode]
    /\ pc' = "put_chmodded"
    /\ UNCHANGED <<harness, workflow_data, setupv, call, destFile, overwrites>>

PutChmodFails ==
    /\ pc = "put_written"
    /\ pc' = "put_raised"
    /\ UNCHANGED <<harness, workflow_data, setupv, putv>>

\* sftp.remove(remote_path)
PutRemove ==
    /\ pc = "put_chmodded"
    /\ destFile.exists
    /\ destFile' = Absent
    /\ pc' = "put_removed"
    /\ UNCHANGED <<harness, workflow_data, setupv, call, tmpFile, overwrites>>

\* sftp.remove raises OSError (no such file, or the server refuses):
\* except OSError: pass
PutRemoveRefused ==
    /\ pc = "put_chmodded"
    /\ pc' = "put_removed"
    /\ UNCHANGED <<harness, workflow_data, setupv, putv>>

\* sftp.remove raises another exception (the connection is lost): the
\* request may or may not have been carried out
PutRemoveAborts ==
    /\ pc = "put_chmodded"
    /\ destFile' \in {destFile, Absent}
    /\ pc' = "put_raised"
    /\ UNCHANGED <<harness, workflow_data, setupv, call, tmpFile, overwrites>>

\* sftp.rename(tmp, remote_path)
PutRename ==
    /\ pc = "put_removed"
    /\ ~destFile.exists \/ overwrites
    /\ destFile' = tmpFile
    /\ tmpFile' = Absent
    /\ pc' = "put_returned"
    /\ UNCHANGED <<harness, workflow_data, setupv, call, overwrites>>

\* sftp.rename raises: the destination exists and the server does not
\* overwrite, or the request fails
PutRenameFails ==
    /\ pc = "put_removed"
    /\ pc' = "put_raised"
    /\ UNCHANGED <<harness, workflow_data, setupv, putv>>

NextPut ==
    \/ PutOpen \/ PutOpenFails
    \/ PutWrite \/ PutWriteFails
    \/ PutChmod \/ PutChmodFails
    \/ PutRemove \/ PutRemoveRefused \/ PutRemoveAborts
    \/ PutRename \/ PutRenameFails

SpecPut == InitPut /\ [][NextPut]_vars

----------------------------------------------------------------------------
(* Properties of the remote file replacement *)

\* the file the call is to leave at remote_path
NewFile == File(call.content, call.mode)

\* C13 (as claimed): at every point of the replacement, failures included,
\* the destination holds the complete previous content or the complete new
\* content; after a successful return it holds the new content with the
\* requested mode and the temp file no longer exists.
C13_NeverLosesDestination ==
    pc \in PutStates =>
        /\ \/ destFile = call.prev
           \/ destFile.exists /\ destFile.content = call.content
        /\ pc = "put_returned" => destFile = NewFile /\ ~tmpFile.exists

\* C13 (amended): at every point of the replacement, failures included, the
\* destination holds the previous file or the complete new file, or it is
\* absent while the temp file holds the complete new content with the
\* requested mode; the destination never holds a part of the new content.
\* After a successful return the destination holds the new content with
\* the requested mode and the temp file no longer exists.
C13_DestinationOrTemp ==
    pc \in PutStates =>
        /\ \/ destFile = call.prev
           \/ destFile = NewFile
           \/ ~destFile.exists /\ tmpFile = NewFile
        /\ pc = "put_returned" => destFile = NewFile /\ ~tmpFile.exists

\* a destination that existed is gone after the rename failed, and the new
\* content is in the temp file
C13_Witness ==
    /\ pc = "put_raised"
    /\ call.prev.exists
    /\ ~destFile.exists
    /\ tmpFile = NewFile

\* a successful return over an existing destination of another content
\* and mode
C13_WitnessReturned ==
    /\ pc = "put_returned"
    /\ call.prev.exists
    /\ call.prev.content # call.content
    /\ call.prev.mode # call.mode
    /\ destFile = NewFile

=============================================================================
